---- MODULE Spec2Model ----
(***************************************************************************)
(* createWithReset (src/src/index.ts): a zustand store whose non-function  *)
(* fields are snapshotted at construction and restored by resetStore /     *)
(* resetState.                                                             *)
(*                                                                         *)
(* A JavaScript value is a record [t, n, id]: t is what typeof reports     *)
(* ("null" for null), n the number, id the identity of a reference.  An    *)
(* object is a function from its own enumerable property names to values;  *)
(* every object literal inherits from Object.prototype.                    *)
(* Field names are ordinary identifiers and names of Object.prototype      *)
(* members; a field called __proto__ is not modelled.                      *)
(***************************************************************************)
EXTENDS Integers, Sequences, FiniteSets, TLC

VARIABLES
  initializer,   \* per store: the createState handed to createWithReset
  status,        \* per store: "none", "built" or "failed"
  error,         \* per store: what createWithReset threw at its caller
  rawState,      \* per store: the object createState returned
  initialState,  \* per store: the closure's initialState
  state,         \* per store: the engine's current state (getState())
  initCalls,     \* per store: how often createState was invoked
  userCalls,     \* per store: how often a user-defined reset function ran
  last,          \* the operation that ran last
  nwrites        \* writes made so far

vars == <<initializer, status, error, rawState, initialState, state, initCalls,
          userCalls, last, nwrites>>

(***************************************************************************)
(* Bounds of the model.                                                    *)
(***************************************************************************)
MaxWrites == 3

Stores == {"A", "B"}

(***************************************************************************)
(* JavaScript values and objects.                                          *)
(***************************************************************************)
Undefined == [t |-> "undefined", n |-> 0, id |-> ""]
Null      == [t |-> "null", n |-> 0, id |-> ""]
NaN       == [t |-> "number", n |-> 0, id |-> "NaN"]
Num(i)    == [t |-> "number", n |-> i, id |-> ""]
Str(x)    == [t |-> "string", n |-> 0, id |-> x]
Ref(x)    == [t |-> "object", n |-> 0, id |-> x]
Fn(x)     == [t |-> "function", n |-> 0, id |-> x]

\* typeof v === 'function'
IsFunction(v) == v.t = "function"

\* {}
EmptyObject == [k \in {} |-> Undefined]

\* Object.prototype, which every object literal inherits from
ObjectPrototype == [k \in {"toString"} |-> Fn("Object.prototype.toString")]

\* key in obj
HasProperty(obj, key) == key \in DOMAIN obj \/ key \in DOMAIN ObjectPrototype

\* obj[key]
Get(obj, key) ==
  IF key \in DOMAIN obj THEN obj[key]
  ELSE IF key \in DOMAIN ObjectPrototype THEN ObjectPrototype[key]
  ELSE Undefined

\* obj[key] = value
Put(obj, key, value) ==
  [k \in DOMAIN obj \cup {key} |-> IF k = key THEN value ELSE obj[k]]

\* { ...target, ...source }, Object.assign({}, target, source)
Assign(target, source) ==
  [k \in DOMAIN target \cup DOMAIN source |->
     IF k \in DOMAIN source THEN source[k] ELSE target[k]]

(***************************************************************************)
(* The store engine (zustand): set(partial, replace) and its listeners.    *)
(* A call of set is a record [partial, replace].                           *)
(***************************************************************************)
SetCall(partial, replace) == [partial |-> partial, replace |-> replace]

\* the state after one set(partial, replace)
SetState(cur, call) ==
  IF call.replace THEN call.partial ELSE Assign(cur, call.partial)

\* the state after a sequence of set calls
RECURSIVE ApplyCalls(_, _)
ApplyCalls(cur, calls) ==
  IF calls = <<>> THEN cur
  ELSE ApplyCalls(SetState(cur, Head(calls)), Tail(calls))

\* the states handed to the subscribers, one per set call
RECURSIVE Delivered(_, _)
Delivered(cur, calls) ==
  IF calls = <<>> THEN <<>>
  ELSE <<SetState(cur, Head(calls))>>
         \o Delivered(SetState(cur, Head(calls)), Tail(calls))

(***************************************************************************)
(* createWithReset: the wrapper handed to create().                        *)
(* An initializer is [throws, type, props]: whether createState throws,    *)
(* and otherwise the typeof-kind of what it returns and the own            *)
(* enumerable properties of that value.                                    *)
(***************************************************************************)
FnDefaultResetStore == Fn("defaultResetStore")
FnDefaultResetState == Fn("defaultResetState")

\* Object.keys(state) raises a TypeError on null and undefined
ObjectKeysThrows(init) == init.type \in {"null", "undefined"}

\* a check of the reserved names that reads state.resetStore without `in`
InOperatorNeverThrows(init) == FALSE

\* 'resetStore' in state raises a TypeError unless state is an object
InOperatorThrows(init) == init.type # "object"

\* a snapshot that keeps only the truthy fields: if (state[k]) ...
ExtractInitialStateTruthy(obj) ==
  [k \in {x \in DOMAIN obj :
            /\ ~IsFunction(obj[x])
            /\ obj[x] \notin {Null, Undefined, Num(0), NaN, Str("")}} |-> obj[k]]

\* the forEach over Object.keys(state) that fills initialState
ExtractInitialState(obj) ==
  [k \in {x \in DOMAIN obj : ~IsFunction(obj[x])} |-> obj[k]]

\* a wrapper that always installs its own resetStore
userDefinedResetStoreIgnored(obj) == FALSE

userDefinedResetStore(obj) ==
  HasProperty(obj, "resetStore") /\ IsFunction(Get(obj, "resetStore"))

userDefinedResetState(obj) ==
  HasProperty(obj, "resetState") /\ IsFunction(Get(obj, "resetState"))

\* the object the wrapper returns
WithResetFunctions(obj) ==
  Assign(obj,
    [k \in {"resetStore", "resetState"} |->
       IF k = "resetStore"
       THEN (IF userDefinedResetStore(obj) THEN Get(obj, "resetStore")
             ELSE FnDefaultResetStore)
       ELSE (IF userDefinedResetState(obj) THEN Get(obj, "resetState")
             ELSE FnDefaultResetState)])

Failure(err) ==
  [ok |-> FALSE, error |-> err, invoked |-> 1, raw |-> EmptyObject,
   initialState |-> EmptyObject, state |-> EmptyObject]

\* create(wrapper): the wrapper runs once, synchronously; what it throws
\* reaches the caller of createWithReset and no store handle is returned
createWithReset(init) ==
  IF init.throws THEN Failure("InitializerError")
  ELSE IF ObjectKeysThrows(init) THEN Failure("TypeError")
  ELSE IF InOperatorThrows(init) THEN Failure("TypeError")
  ELSE [ok |-> TRUE, error |-> "none", invoked |-> 1, raw |-> init.props,
        initialState |-> ExtractInitialState(init.props),
        state |-> WithResetFunctions(init.props)]

(***************************************************************************)
(* The default reset operations.  The argument list of resetState is a     *)
(* sequence of units [arr, names]: a single name (arr = FALSE, one name)   *)
(* or an array of names (arr = TRUE).                                      *)
(***************************************************************************)
Single(k) == [arr |-> FALSE, names |-> <<k>>]
Arr(ks)   == [arr |-> TRUE, names |-> ks]

\* the keys without .flat(): an array argument is used as one property key,
\* which names a field only when the array holds a single name
RECURSIVE FlatNoSpread(_)
FlatNoSpread(keys) ==
  IF keys = <<>> THEN <<>>
  ELSE (IF Len(Head(keys).names) = 1 THEN <<Head(keys).names[1]>> ELSE <<>>)
         \o FlatNoSpread(Tail(keys))

\* keys.flat()
RECURSIVE Flat(_)
Flat(keys) ==
  IF keys = <<>> THEN <<>>
  ELSE (IF Head(keys).arr THEN Head(keys).names ELSE <<Head(keys).names[1]>>)
         \o Flat(Tail(keys))

\* a resetState that stages the whole snapshot, whatever keys it is given
ResetValuesAll(snapshot, keysToReset, resetValues) == snapshot

\* keysToReset.forEach(key => { if (key in initialState) resetValues[key] = initialState[key] })
RECURSIVE ResetValues(_, _, _)
ResetValues(snapshot, keysToReset, resetValues) ==
  IF keysToReset = <<>> THEN resetValues
  ELSE ResetValues(snapshot, Tail(keysToReset),
         IF HasProperty(snapshot, Head(keysToReset))
         THEN Put(resetValues, Head(keysToReset), Get(snapshot, Head(keysToReset)))
         ELSE resetValues)

\* a resetStore that replaces the state by the snapshot
defaultResetStoreReplace(snapshot) == <<SetCall(snapshot, TRUE)>>

\* the set calls issued by defaultResetStore()
defaultResetStore(snapshot) == <<SetCall(snapshot, FALSE)>>

\* the set calls issued by defaultResetState(...keys)
defaultResetState(snapshot, keys) ==
  <<SetCall(ResetValues(snapshot, Flat(keys), EmptyObject), FALSE)>>

(***************************************************************************)
(* The callers: initializers, writes and reset arguments.                  *)
(***************************************************************************)
FnInc == Fn("inc")
FnUserResetStore == Fn("userResetStore")
FnUserResetState == Fn("userResetState")

Returns(type, props) == [throws |-> FALSE, type |-> type, props |-> props]

Counter == ("count" :> Num(0)) @@ ("user" :> Null) @@ ("inc" :> FnInc)
Profile == Put(Counter, "user", Ref("objA"))

GoodInitializers ==
  { Returns("object", Counter),
    Returns("object", Put(Profile, "resetStore", FnUserResetStore)),
    Returns("object", Put(Counter, "resetState", FnUserResetState)),
    Returns("object", Put(Put(Counter, "resetStore", FnUserResetStore),
                          "resetState", FnUserResetState)),
    Returns("object", Put(Counter, "resetStore", Num(5))),
    Returns("object", Put(Profile, "resetState", Num(5))),
    Returns("object", ("count" :> Num(0))) }

BadInitializers ==
  { [throws |-> TRUE, type |-> "undefined", props |-> EmptyObject],
    Returns("null", EmptyObject),
    Returns("undefined", EmptyObject),
    Returns("number", EmptyObject),
    Returns("string", ("0" :> Str("a")) @@ ("1" :> Str("b"))) }

Initializers == GoodInitializers \cup BadInitializers

WriteKeys == {"count", "user", "extra"}
WriteValues == {Undefined, Null, Ref("objB"), Fn("new")}
ReplacePartials == {EmptyObject, ("count" :> Ref("objB"))}

\* the argument lists the single-store specification calls resetState with
CommonForms ==
  { <<>>,
    <<Single("count")>>, <<Single("user")>>, <<Single("inc")>>,
    <<Single("extra")>>, <<Single("toString")>>,
    <<Arr(<<"count", "user">>)>>,
    <<Single("user"), Single("toString")>>,
    <<Single("count"), Arr(<<"count">>)>> }

ResetNames == {"count", "user", "inc", "extra", "toString"}

\* resetState(), resetState(k), resetState([k]), resetState(k1, k2),
\* resetState([k1, k2]), resetState(k1, [k2])
ArgForms ==
  {<<>>}
  \cup {<<Single(k)>> : k \in ResetNames}
  \cup {<<Arr(<<k>>)>> : k \in ResetNames}
  \cup {<<Single(k[1]), Single(k[2])>> : k \in ResetNames \X ResetNames}
  \cup {<<Arr(<<k[1], k[2]>>)>> : k \in ResetNames \X ResetNames}
  \cup {<<Single(k[1]), Arr(<<k[2]>>)>> : k \in ResetNames \X ResetNames}

\* state.count + 1
Plus1(v) ==
  IF v.t = "number" THEN (IF v.id = "NaN" THEN NaN ELSE Num(v.n + 1))
  ELSE IF v.t = "null" THEN Num(1)
  ELSE IF v.t = "undefined" THEN NaN
  ELSE Str("concatenation")

(***************************************************************************)
(* Actions.                                                                *)
(***************************************************************************)
NoOp == [op |-> "none", store |-> "A", fn |-> Undefined, keys |-> <<>>,
         pre |-> [s \in Stores |-> EmptyObject], calls |-> <<>>,
         delivered |-> <<>>]

NoInitializer == [throws |-> FALSE, type |-> "none", props |-> EmptyObject]

Init ==
  /\ initializer = [s \in Stores |-> NoInitializer]
  /\ status = [s \in Stores |-> "none"]
  /\ error = [s \in Stores |-> "none"]
  /\ rawState = [s \in Stores |-> EmptyObject]
  /\ initialState = [s \in Stores |-> EmptyObject]
  /\ state = [s \in Stores |-> EmptyObject]
  /\ initCalls = [s \in Stores |-> 0]
  /\ userCalls = [s \in Stores |-> 0]
  /\ last = NoOp
  /\ nwrites = 0

\* a createWithReset whose initialState lives at module level, one object
\* for every store
ConstructSharedSnapshot(s, init) ==
  /\ status[s] = "none"
  /\ initializer' = [initializer EXCEPT ![s] = init]
  /\ LET r == createWithReset(init) IN
       /\ status' = [status EXCEPT ![s] = IF r.ok THEN "built" ELSE "failed"]
       /\ error' = [error EXCEPT ![s] = r.error]
       /\ rawState' = [rawState EXCEPT ![s] = r.raw]
       /\ initialState' = [o \in Stores |-> Assign(initialState[o], r.initialState)]
       /\ state' = [state EXCEPT ![s] = r.state]
       /\ initCalls' = [initCalls EXCEPT ![s] = @ + r.invoked]
  /\ last' = [NoOp EXCEPT !.op = "create", !.store = s, !.pre = state]
  /\ UNCHANGED <<userCalls, nwrites>>

\* const useStore = createWithReset(init)
Construct(s, init) ==
  /\ status[s] = "none"
  /\ initializer' = [initializer EXCEPT ![s] = init]
  /\ LET r == createWithReset(init) IN
       /\ status' = [status EXCEPT ![s] = IF r.ok THEN "built" ELSE "failed"]
       /\ error' = [error EXCEPT ![s] = r.error]
       /\ rawState' = [rawState EXCEPT ![s] = r.raw]
       /\ initialState' = [initialState EXCEPT ![s] = r.initialState]
       /\ state' = [state EXCEPT ![s] = r.state]
       /\ initCalls' = [initCalls EXCEPT ![s] = @ + r.invoked]
  /\ last' = [NoOp EXCEPT !.op = "create", !.store = s, !.pre = state]
  /\ UNCHANGED <<userCalls, nwrites>>

\* an operation of a built store that issues the set calls `calls`
Run(s, op, fn, keys, calls) ==
  /\ state' = [state EXCEPT ![s] = ApplyCalls(state[s], calls)]
  /\ last' = [op |-> op, store |-> s, fn |-> fn, keys |-> keys, pre |-> state,
              calls |-> calls, delivered |-> Delivered(state[s], calls)]
  /\ UNCHANGED <<initializer, status, error, rawState, initialState, initCalls>>

\* useStore.setState({ [k]: v })
Write(s, k, v) ==
  /\ status[s] = "built"
  /\ nwrites < MaxWrites
  /\ nwrites' = nwrites + 1
  /\ Run(s, "write", Undefined, <<>>, <<SetCall(Put(EmptyObject, k, v), FALSE)>>)
  /\ UNCHANGED userCalls

\* useStore.setState(partial, true)
Replace(s, partial) ==
  /\ status[s] = "built"
  /\ nwrites < MaxWrites
  /\ nwrites' = nwrites + 1
  /\ Run(s, "replace", Undefined, <<>>, <<SetCall(partial, TRUE)>>)
  /\ UNCHANGED userCalls

\* the functions a caller can hold: those of the current state and those
\* of the state the store was created with
Callable(s, name) ==
  {f \in {Get(state[s], name), Get(WithResetFunctions(rawState[s]), name)} :
     IsFunction(f)}

\* increment: () => set(state => ({ count: state.count + 1 }))
CallBehaviour(s) ==
  /\ status[s] = "built"
  /\ FnInc \in Callable(s, "inc")
  /\ nwrites < MaxWrites
  /\ nwrites' = nwrites + 1
  /\ Run(s, "behaviour", FnInc, <<>>,
         <<SetCall(Put(EmptyObject, "count", Plus1(Get(state[s], "count"))), FALSE)>>)
  /\ UNCHANGED userCalls

\* resetStore(), the default
CallDefaultResetStore(s) ==
  /\ status[s] = "built"
  /\ FnDefaultResetStore \in Callable(s, "resetStore")
  /\ Run(s, "resetStore", FnDefaultResetStore, <<>>,
         defaultResetStore(initialState[s]))
  /\ UNCHANGED <<userCalls, nwrites>>

\* resetState(...keys), the default
CallDefaultResetState(s, keys) ==
  /\ status[s] = "built"
  /\ FnDefaultResetState \in Callable(s, "resetState")
  /\ Run(s, "resetState", FnDefaultResetState, keys,
         defaultResetState(initialState[s], keys))
  /\ UNCHANGED <<userCalls, nwrites>>

\* resetStore() or resetState() where the initializer defined it: the
\* user's function runs, seen by its own side effect
CallUserReset(s, name) ==
  /\ status[s] = "built"
  /\ \E f \in Callable(s, name) \ {FnDefaultResetStore, FnDefaultResetState} :
       Run(s, name, f, <<>>, <<>>)
  /\ nwrites < MaxWrites
  /\ nwrites' = nwrites + 1
  /\ userCalls' = [userCalls EXCEPT ![s] = @ + 1]

\* one store, every initializer
Next ==
  \E s \in {"A"} :
    \/ \E init \in Initializers : Construct(s, init)
    \/ \E k \in WriteKeys, v \in WriteValues : Write(s, k, v)
    \/ \E partial \in ReplacePartials : Replace(s, partial)
    \/ CallBehaviour(s)
    \/ CallDefaultResetStore(s)
    \/ \E keys \in CommonForms : CallDefaultResetState(s, keys)
    \/ \E name \in {"resetStore", "resetState"} : CallUserReset(s, name)

Spec == Init /\ [][Next]_vars

\* one store, every argument form of resetState
FormInitializers == {Returns("object", Counter), Returns("object", Profile)}
FormWriteValues == {Undefined, Ref("objB")}

NextForms ==
  \E s \in {"A"} :
    \/ \E init \in FormInitializers : Construct(s, init)
    \/ \E k \in WriteKeys, v \in FormWriteValues : Write(s, k, v)
    \/ \E keys \in ArgForms : CallDefaultResetState(s, keys)

SpecForms == Init /\ [][NextForms]_vars

\* two stores
IsoInitializers == {Returns("object", Counter), Returns("object", Profile)}
IsoForms == {<<Single("user")>>, <<Arr(<<"count", "user">>)>>}

NextIso ==
  \E s \in Stores :
    \/ \E init \in IsoInitializers : Construct(s, init)
    \/ \E k \in {"count", "user"} : Write(s, k, Ref("objB"))
    \/ CallBehaviour(s)
    \/ CallDefaultResetStore(s)
    \/ \E keys \in IsoForms : CallDefaultResetState(s, keys)

SpecIso == Init /\ [][NextIso]_vars

\* one store, merging writes only: no write assigns or removes resetStore
\* or resetState
MergeForms == CommonForms \cup {<<Single("resetStore")>>, <<Single("resetState")>>}

NextMerge ==
  \E s \in {"A"} :
    \/ \E init \in Initializers : Construct(s, init)
    \/ \E k \in WriteKeys, v \in WriteValues : Write(s, k, v)
    \/ CallBehaviour(s)
    \/ CallDefaultResetStore(s)
    \/ \E keys \in MergeForms : CallDefaultResetState(s, keys)

SpecMerge == Init /\ [][NextMerge]_vars

(***************************************************************************)
(* What the claims speak of.                                               *)
(***************************************************************************)
\* the data fields of the object the initializer returned
DataKeys(s) == {k \in DOMAIN rawState[s] : rawState[s][k].t # "function"}

\* the names an argument list of resetState mentions
NameSet(keys) ==
  UNION {{keys[i].names[j] : j \in 1..Len(keys[i].names)} : i \in 1..Len(keys)}

DefaultResetStoreRan == last.op = "resetStore" /\ last.fn = FnDefaultResetStore
DefaultResetStateRan == last.op = "resetState" /\ last.fn = FnDefaultResetState

\* the state of the store the last operation ran on, before it ran
Pre == last.pre[last.store]
\* ... and after it
Post == state[last.store]

\* C1: when the default resetStore() returns, every data field of the
\* object the initializer returned has its construction-time value in the
\* store, whatever was written before.
C1_ResetStoreRestoresAll ==
  DefaultResetStoreRan =>
    \A k \in DataKeys(last.store) :
      k \in DOMAIN Post /\ Post[k] = rawState[last.store][k]

\* a null field set to undefined and a second field changed, then resetStore()
C1_Witness ==
  /\ DefaultResetStoreRan
  /\ rawState["A"] = Counter
  /\ "user" \in DOMAIN Pre /\ Pre["user"] = Undefined
  /\ "count" \in DOMAIN Pre /\ Pre["count"] # Num(0)
  /\ Post["user"] = Null /\ Post["count"] = Num(0)

\* C2: after the default resetState(k) for one data field k, k has its
\* construction-time value and every other key of the store is as before
\* the call.
C2_ResetStateSingleKey ==
  \A k \in DataKeys(last.store) :
    (DefaultResetStateRan /\ last.keys = <<Single(k)>>) =>
      /\ k \in DOMAIN Post /\ Post[k] = rawState[last.store][k]
      /\ DOMAIN Post \ {k} = DOMAIN Pre \ {k}
      /\ \A j \in DOMAIN Pre \ {k} : Post[j] = Pre[j]

\* user was null, set to undefined; count was changed too; resetState('user')
C2_Witness ==
  /\ DefaultResetStateRan
  /\ last.keys = <<Single("user")>>
  /\ rawState["A"] = Counter
  /\ "user" \in DOMAIN Pre /\ Pre["user"] = Undefined
  /\ Post["user"] = Null
  /\ Post["count"] # Num(0)

\* C3: the default resetState depends only on the set of names its
\* arguments flatten to: every argument list naming the same set gives the
\* same state, the named data fields get their construction-time values,
\* and no key outside the named set changes.
C3_ResetStateArgumentForms ==
  DefaultResetStateRan =>
    /\ \A a \in ArgForms :
         NameSet(a) = NameSet(last.keys) =>
           ApplyCalls(Pre, defaultResetState(initialState[last.store], a)) = Post
    /\ \A k \in NameSet(last.keys) \cap DataKeys(last.store) :
         k \in DOMAIN Post /\ Post[k] = rawState[last.store][k]
    /\ DOMAIN Post \ NameSet(last.keys) = DOMAIN Pre \ NameSet(last.keys)
    /\ \A k \in DOMAIN Pre \ NameSet(last.keys) : Post[k] = Pre[k]

\* count, user and extra were written, then resetState('count', ['user'])
C3_Witness ==
  /\ DefaultResetStateRan
  /\ last.keys = <<Single("count"), Arr(<<"user">>)>>
  /\ rawState["A"] = Counter
  /\ DOMAIN Pre = DOMAIN Counter \cup {"extra", "resetStore", "resetState"}
  /\ Pre["count"] = Ref("objB") /\ Pre["user"] = Undefined
  /\ Post["count"] = Num(0) /\ Post["user"] = Null
  /\ Post["extra"] = Pre["extra"]

\* C4: the default resetState(name) with a name that is no key of the
\* initial snapshot changes nothing: same keys, same values.
C4_UnknownNameIsNoOp ==
  \A name \in ResetNames \ DataKeys(last.store) :
    (DefaultResetStateRan /\ last.keys = <<Single(name)>>) => Post = Pre

\* C5: a callable resetStore / resetState of the initializer is the store's
\* field of that name and is what a call runs, without any write of the
\* snapshot; a name the initializer does not define as a callable gets the
\* default.
ReservedDefault(name) ==
  IF name = "resetStore" THEN FnDefaultResetStore ELSE FnDefaultResetState

C5_UserDefinedResetWins ==
  \A s \in Stores : \A name \in {"resetStore", "resetState"} :
    LET user == name \in DOMAIN rawState[s] /\ rawState[s][name].t = "function"
        installed == IF user THEN rawState[s][name] ELSE ReservedDefault(name)
    IN  /\ (status[s] = "built" /\ last.op = "create" /\ last.store = s) =>
             (name \in DOMAIN state[s] /\ state[s][name] = installed)
        /\ (last.op = name /\ last.store = s) =>
             /\ last.fn = installed
             /\ user => (last.calls = <<>> /\ Post = Pre /\ userCalls[s] > 0)

\* the initializer defined resetStore only: its function ran, the default
\* resetState is installed next to it
C5_Witness ==
  /\ last.op = "resetStore" /\ last.fn = FnUserResetStore
  /\ userCalls["A"] = 1
  /\ "resetState" \notin DOMAIN rawState["A"]
  /\ state["A"]["resetState"] = FnDefaultResetState
  /\ state["A"]["count"] # Num(0)

\* C6: the default resetStore() merges: every key of the store that is not
\* in the initial snapshot is still there with the value it had.
C6_ResetStoreIsMerge ==
  DefaultResetStoreRan =>
    \A k \in DOMAIN Pre \ DataKeys(last.store) :
      k \in DOMAIN Post /\ Post[k] = Pre[k]

\* a key added after construction and a behaviour field survive resetStore()
C6_Witness ==
  /\ DefaultResetStoreRan
  /\ rawState["A"] = Counter
  /\ "extra" \in DOMAIN Pre /\ "extra" \in DOMAIN Post
  /\ Post["extra"] = Ref("objB")
  /\ Post["inc"] = FnInc /\ Post["resetState"] = FnDefaultResetState
  /\ Pre["count"] # Num(0) /\ Post["count"] = Num(0)

\* C7: when the initializer throws or returns null, undefined or a
\* primitive, createWithReset fails with an error at its caller, there is
\* no store, and the initializer ran once.
C7_ConstructionAllOrNothing ==
  \A s \in Stores :
    (status[s] # "none" /\ (initializer[s].throws \/ initializer[s].type # "object")) =>
      /\ status[s] = "failed"
      /\ error[s] # "none"
      /\ initializer[s].throws => error[s] = "InitializerError"
      /\ state[s] = EmptyObject /\ initialState[s] = EmptyObject
      /\ initCalls[s] = 1
      /\ last.store = s => last.op = "create"

\* the initializer returned a string
C7_Witness ==
  /\ status["A"] = "failed"
  /\ initializer["A"].type = "string"
  /\ error["A"] = "TypeError"

\* C8: the initial snapshot of a built store is, in every state, the data
\* fields of the object the initializer returned, with their values.
C8_SnapshotFixed ==
  \A s \in Stores :
    status[s] = "built" =>
      /\ DOMAIN initialState[s] = DataKeys(s)
      /\ \A k \in DataKeys(s) : initialState[s][k] = rawState[s][k]

\* user was removed, extra added, count turned into a function
C8_Witness ==
  /\ status["A"] = "built"
  /\ "user" \in DOMAIN initialState["A"]
  /\ "user" \notin DOMAIN state["A"]
  /\ "extra" \in DOMAIN state["A"]
  /\ IsFunction(Get(state["A"], "count"))

\* C9: a default reset operation issues exactly one merging set call, whose
\* keys are the snapshot's keys (resetStore) or the requested names that
\* are in the snapshot (resetState), and the subscribers have seen its
\* result when it returns.
C9_OneWritePerReset ==
  (DefaultResetStoreRan \/ DefaultResetStateRan) =>
    /\ Len(last.calls) = 1
    /\ ~last.calls[1].replace
    /\ last.delivered = <<Post>>
    /\ DOMAIN last.calls[1].partial =
         IF DefaultResetStoreRan THEN DataKeys(last.store)
         ELSE NameSet(last.keys) \cap DataKeys(last.store)

\* C10: two stores are isolated: each createWithReset runs its initializer
\* once and keeps its own snapshot, an operation on one store leaves the
\* other store's state and snapshot alone, and resetStore() gives a store
\* its own construction-time values.
C10_StoresIsolated ==
  /\ \A s \in Stores :
       /\ initCalls[s] = IF status[s] = "none" THEN 0 ELSE 1
       /\ status[s] = "built" =>
            /\ rawState[s] = initializer[s].props
            /\ DOMAIN initialState[s] = DataKeys(s)
            /\ \A k \in DataKeys(s) : initialState[s][k] = rawState[s][k]
  /\ last.op # "none" => \A o \in Stores \ {last.store} : state[o] = last.pre[o]
  /\ DefaultResetStoreRan =>
       \A k \in DataKeys(last.store) :
         k \in DOMAIN Post /\ Post[k] = rawState[last.store][k]

\* A and B come from different initializers, A was written and stays so,
\* B was written and resetStore() on B gives B its own user back
C10_Witness ==
  /\ DefaultResetStoreRan /\ last.store = "B"
  /\ rawState["A"] = Counter /\ rawState["B"] = Profile
  /\ state["A"]["user"] = Ref("objB")
  /\ Pre["user"] = Ref("objB")
  /\ Post["user"] = Ref("objA")

\* C11: whatever the initializer returned, after construction and after
\* any default resets and writes to other keys, the store's resetStore and
\* resetState fields are both callable.
C11_ResetFieldsStayCallable ==
  \A s \in Stores :
    status[s] = "built" =>
      /\ IsFunction(Get(state[s], "resetStore"))
      /\ IsFunction(Get(state[s], "resetState"))

====
